---------------------------- MODULE Spec2Model ----------------------------
(***************************************************************************)
(* Tic Tac Toe front end (tic_tac_toe_frontend/src/App.js).                *)
(*                                                                         *)
(* The App component keeps two pieces of React state, squares and xIsNext, *)
(* and derives winnerInfo and isDraw from them on every render.  A click   *)
(* on a square runs handleSquareClick, the Reset button runs handleReset;  *)
(* React re-renders synchronously after each of these discrete events, so  *)
(* one action of this module is: the handler, then the render that         *)
(* recomputes the derived values.                                          *)
(*                                                                         *)
(* JavaScript values: null is the string "null", the marks are "X" and     *)
(* "O", an array is a function over 0 .. length-1 (squares) or a tuple     *)
(* (the triples, whose order matters).  A JavaScript string is the TLA+    *)
(* string of its characters, a character outside ASCII written as the      *)
(* six characters of its \uXXXX escape.                                    *)
(***************************************************************************)
EXTENDS Integers, Sequences, FiniteSets, TLC

VARIABLES
    squares,     \* useState(Array(9).fill(null)): the board
    xIsNext,     \* useState(true): whether X plays next
    winnerInfo,  \* useMemo(calculateWinner(squares)) of the last render
    isDraw,      \* useMemo(squares.every(Boolean) && !winnerInfo.winner)
    last,        \* observer: the event handled last and the state it found
    older        \* observer: the event handled before that one (HistSpec)

vars == <<squares, xIsNext, winnerInfo, isDraw, last, older>>

\* Number of cells: Array(9).
NumSquares == 9

null == "null"

Marks == {"X", "O"}

Cells == 0 .. (NumSquares - 1)

\* Every array of 9 cells over {null, 'X', 'O'}.
Boards == [Cells -> Marks \cup {null}]

\* Array(9).fill(null)
EmptyBoard == [i \in Cells |-> null]

\* JavaScript truthiness of a cell value (null, 'X' or 'O').
Truthy(v) == v # null

-----------------------------------------------------------------------------
(* calculateWinner *)

\* const lines = [...]: rows, cols, diags, in the order of the source.
lines ==
    << <<0, 1, 2>>, <<3, 4, 5>>, <<6, 7, 8>>,
       <<0, 3, 6>>, <<1, 4, 7>>, <<2, 5, 8>>,
       <<0, 4, 8>>, <<2, 4, 6>> >>

\* The for-of loop from its k-th triple on: the first triple whose three cells
\* hold the same truthy value is returned, { winner: null, line: [] } if none.
RECURSIVE scanLines(_, _)
scanLines(sq, k) ==
    IF k > Len(lines)
    THEN [winner |-> null, line |-> <<>>]
    ELSE LET a == lines[k][1]
             b == lines[k][2]
             c == lines[k][3]
         IN  IF Truthy(sq[a]) /\ sq[a] = sq[b] /\ sq[a] = sq[c]
             THEN [winner |-> sq[a], line |-> <<a, b, c>>]
             ELSE scanLines(sq, k + 1)

\* A scan that keeps the last matching triple instead of the first.
RECURSIVE scanLinesLast(_, _)
scanLinesLast(sq, k) ==
    IF k < 1
    THEN [winner |-> null, line |-> <<>>]
    ELSE LET a == lines[k][1]
             b == lines[k][2]
             c == lines[k][3]
         IN  IF Truthy(sq[a]) /\ sq[a] = sq[b] /\ sq[a] = sq[c]
             THEN [winner |-> sq[a], line |-> <<a, b, c>>]
             ELSE scanLinesLast(sq, k - 1)

calculateWinnerLastMatch(sq) == scanLinesLast(sq, Len(lines))

\* A scan that tries the columns and diagonals before the rows.
calculateWinnerColsFirst(sq) ==
    LET order == <<4, 5, 6, 7, 8, 1, 2, 3>>
        hit == {n \in 1 .. Len(order) :
                   /\ Truthy(sq[lines[order[n]][1]])
                   /\ sq[lines[order[n]][1]] = sq[lines[order[n]][2]]
                   /\ sq[lines[order[n]][1]] = sq[lines[order[n]][3]]}
    IN  IF hit = {}
        THEN [winner |-> null, line |-> <<>>]
        ELSE LET n == CHOOSE m \in hit : \A o \in hit : m <= o
             IN  [winner |-> sq[lines[order[n]][1]], line |-> lines[order[n]]]

calculateWinner(sq) == scanLines(sq, 1)

-----------------------------------------------------------------------------
(* App: derived state and rendered output *)

\* squares.every(Boolean)
everyBoolean(sq) == \A i \in Cells : Truthy(sq[i])

\* A draw flag that looks only at the winner, not at the board being full.
computeIsDrawNoEvery(sq, wi) == ~Truthy(wi.winner)

\* A draw flag that lost the negation of the winner test.
computeIsDrawWinnerRequired(sq, wi) == everyBoolean(sq) /\ Truthy(wi.winner)

\* () => squares.every(Boolean) && !winnerInfo.winner
computeIsDraw(sq, wi) == everyBoolean(sq) /\ ~Truthy(wi.winner)

\* A render whose useMemo values are never recomputed (empty dependencies).
RenderStale(sq) == UNCHANGED <<winnerInfo, isDraw>>

\* The render that follows a state change: both useMemo values recomputed.
Render(sq) ==
    /\ winnerInfo' = calculateWinner(sq)
    /\ isDraw' = computeIsDraw(sq, calculateWinner(sq))

\* const currentPlayer = xIsNext ? 'X' : 'O'
currentPlayer == IF xIsNext THEN "X" ELSE "O"

\* gameOver={Boolean(winnerInfo.winner) || isDraw}
gameOver == Truthy(winnerInfo.winner) \/ isDraw

\* A status line without the draw branch.
statusTextNoDraw ==
    IF Truthy(winnerInfo.winner)
    THEN "Winner: " \o winnerInfo.winner
    ELSE "Next player: " \o currentPlayer

\* const statusText = winnerInfo.winner ? `Winner: ${winnerInfo.winner}`
\*   : isDraw ? `It\u2019s a draw` : `Next player: ${currentPlayer}`
\* (the source writes the apostrophe as the character U+2019).
statusText ==
    IF Truthy(winnerInfo.winner)
    THEN "Winner: " \o winnerInfo.winner
    ELSE IF isDraw
         THEN "It\\u2019s a draw"
         ELSE "Next player: " \o currentPlayer

\* A disabled flag that forgets gameOver.
squareDisabledOccupiedOnly(idx) == Truthy(squares[idx])

\* Board: disabled={Boolean(value) || gameOver}, of the square at idx.
squareDisabled(idx) == Truthy(squares[idx]) \/ gameOver

\* The indices an array holds: what winningLine.includes tests.
Elements(arr) == {arr[n] : n \in 1 .. Len(arr)}

\* A highlight that marks every occupied square of a won game.
squareIsWinningAllMarks(idx) == Truthy(winnerInfo.winner) /\ Truthy(squares[idx])

\* Board: isWinning = winningLine.includes(idx), winningLine={winnerInfo.line}.
squareIsWinning(idx) == idx \in Elements(winnerInfo.line)

\* What the observer records of an event: which handler, on which square,
\* which handler ran before it, and the state the handler found.
Observe(op, index) ==
    [op |-> op, index |-> index, prevOp |-> last.op,
     squares |-> squares, xIsNext |-> xIsNext,
     winnerInfo |-> winnerInfo, isDraw |-> isDraw]


-----------------------------------------------------------------------------
(* App: state after the first render, and the two event handlers *)

\* The observer before any event.
NoEvent == [op |-> "none", index |-> 0, squares |-> EmptyBoard, xIsNext |-> TRUE]

Init ==
    /\ squares = EmptyBoard
    /\ xIsNext = TRUE
    /\ winnerInfo = calculateWinner(EmptyBoard)
    /\ isDraw = computeIsDraw(EmptyBoard, calculateWinner(EmptyBoard))
    /\ last = [op |-> "mount", index |-> 0, prevOp |-> "none",
               squares |-> EmptyBoard, xIsNext |-> TRUE,
               winnerInfo |-> calculateWinner(EmptyBoard),
               isDraw |-> computeIsDraw(EmptyBoard, calculateWinner(EmptyBoard))]
    /\ older = NoEvent

\* A guard that forgets the occupied test.
clickIgnoredWinnerOnly(index) == Truthy(winnerInfo.winner)

\* A guard that forgets the winner test.
clickIgnoredOccupiedOnly(index) == Truthy(squares[index])

\* if (squares[index] || winnerInfo.winner) return;
clickIgnored(index) == Truthy(squares[index]) \/ Truthy(winnerInfo.winner)

\* A placement that forgets to write the mark into the copy.
nextSquaresKept(index) == squares

\* A placement that always writes 'X'.
nextSquaresAlwaysX(index) == [squares EXCEPT ![index] = "X"]

\* next = squares.slice(); next[index] = currentPlayer
nextSquares(index) == [squares EXCEPT ![index] = currentPlayer]

\* A placement that leaves the turn where it was.
nextXIsNextKept == xIsNext

\* setXIsNext(!xIsNext)
nextXIsNext == ~xIsNext

\* handleSquareClick(index), then the render its state change causes.  An
\* ignored click sets no state: nothing is rendered anew.
handleSquareClick(index) ==
    /\ last' = Observe("click", index)
    /\ IF clickIgnored(index)
       THEN UNCHANGED <<squares, xIsNext, winnerInfo, isDraw>>
       ELSE /\ squares' = nextSquares(index)
            /\ xIsNext' = nextXIsNext
            /\ Render(nextSquares(index))

\* A reset that keeps the board.
resetSquaresKept == squares

\* setSquares(Array(9).fill(null))
resetSquares == EmptyBoard

\* A reset that hands the first move to whoever was to move.
resetXIsNextKept == xIsNext

\* setXIsNext(true)
resetXIsNext == TRUE

\* handleReset(), then the render.
handleReset ==
    /\ last' = Observe("reset", 0)
    /\ squares' = resetSquares
    /\ xIsNext' = resetXIsNext
    /\ Render(resetSquares)

\* The events of the page: a click on one of the 9 squares, or on Reset.
Next ==
    \/ \E index \in Cells : handleSquareClick(index) /\ UNCHANGED older
    \/ handleReset /\ UNCHANGED older

Spec == Init /\ [][Next]_vars

-----------------------------------------------------------------------------
(* A game played without Reset, by players who keep placing marks: an      *)
(* accepted click, when one is possible, is eventually made.               *)

\* A click that the guard of handleSquareClick lets through.
Placement ==
    \E index \in Cells :
        ~clickIgnored(index) /\ handleSquareClick(index) /\ UNCHANGED older

LiveNext == \E index \in Cells : handleSquareClick(index) /\ UNCHANGED older

LiveSpec == Init /\ [][LiveNext]_vars /\ WF_vars(Placement)

-----------------------------------------------------------------------------
(* The same events with the observer keeping two of them: older is what    *)
(* last held before the event handled last.                                *)

Remember ==
    older' = [op |-> last.op, index |-> last.index,
              squares |-> last.squares, xIsNext |-> last.xIsNext]

HistNext ==
    \/ \E index \in Cells : handleSquareClick(index) /\ Remember
    \/ handleReset /\ Remember

HistSpec == Init /\ [][HistNext]_vars

-----------------------------------------------------------------------------
(* calculateWinner and the derived flags on every board, reachable or not: *)
(* App is given an arbitrary array of 9 cells as its squares and renders.  *)

NotRendered == [winner |-> null, line |-> <<>>]

EvalInit ==
    /\ squares \in Boards
    /\ xIsNext \in BOOLEAN
    /\ winnerInfo = NotRendered
    /\ isDraw = FALSE
    /\ last = [op |-> "input", index |-> 0, prevOp |-> "none",
               squares |-> squares, xIsNext |-> xIsNext,
               winnerInfo |-> NotRendered, isDraw |-> FALSE]
    /\ older = NoEvent

EvalRender ==
    /\ last.op = "input"
    /\ last' = Observe("render", 0)
    /\ Render(squares)
    /\ UNCHANGED <<squares, xIsNext, older>>

EvalNext == EvalRender

EvalSpec == EvalInit /\ [][EvalNext]_vars

-----------------------------------------------------------------------------
(* The vocabulary of the specification: triples and verdicts *)

\* The 8 fixed triples in the order the specification lists them: rows,
\* columns, diagonals.
Row(r) == <<3 * r, 3 * r + 1, 3 * r + 2>>
Col(c) == <<c, c + 3, c + 6>>
TripleOrder ==
    <<Row(0), Row(1), Row(2), Col(0), Col(1), Col(2), <<0, 4, 8>>, <<2, 4, 6>>>>

TripleIds == 1 .. Len(TripleOrder)

\* The three cells of triple t hold the same non-empty mark.
Filled(b, t) == b[t[1]] \in Marks /\ b[t[1]] = b[t[2]] /\ b[t[1]] = b[t[3]]

HasTriple(b) == \E k \in TripleIds : Filled(b, TripleOrder[k])

Full(b) == \A i \in Cells : b[i] \in Marks

\* Verdict of a board, by variant.
VerdictOf(b) ==
    IF HasTriple(b) THEN "Won" ELSE IF Full(b) THEN "Draw" ELSE "Ongoing"

MarkOfTurn(x) == IF x THEN "X" ELSE "O"

NoWinner == [winner |-> null, line |-> <<>>]

Rendered == last.op = "render"

-----------------------------------------------------------------------------
(* Claims on calculateWinner and the derived flags, under EvalSpec *)

\* C1 as stated: on every board, for every triple whose three cells hold the
\* same non-empty mark, calculateWinner returns that mark as winner and that
\* exact triple as line.
C1_EveryFilledTripleReturned ==
    Rendered =>
        \A k \in TripleIds :
            Filled(squares, TripleOrder[k]) =>
                /\ winnerInfo.winner = squares[TripleOrder[k][1]]
                /\ winnerInfo.line = TripleOrder[k]

\* C1 as amended: on every board with a filled triple, calculateWinner returns
\* a winner, and the mark and line are those of the first filled triple in the
\* fixed order (so of the triple itself when no earlier triple is filled).
C1_FirstFilledTripleReturned ==
    Rendered =>
        \A k \in TripleIds :
            Filled(squares, TripleOrder[k]) =>
                /\ winnerInfo.winner \in Marks
                /\ (\A j \in TripleIds : j < k => ~Filled(squares, TripleOrder[j]))
                       => /\ winnerInfo.winner = squares[TripleOrder[k][1]]
                          /\ winnerInfo.line = TripleOrder[k]

\* Scenario B: [X,X,X,_,_,_,_,_,_] evaluates to Won(X, [0,1,2]).
C1_Witness ==
    /\ Rendered
    /\ squares = [i \in Cells |-> IF i \in {0, 1, 2} THEN "X" ELSE null]
    /\ winnerInfo = [winner |-> "X", line |-> <<0, 1, 2>>]

\* C2: on every full board without a filled triple, calculateWinner returns
\* winner null with an empty line and isDraw is true.
C2_FullBoardWithoutTripleIsDraw ==
    (Rendered /\ ~HasTriple(squares) /\ Full(squares)) =>
        /\ winnerInfo = NoWinner
        /\ isDraw = TRUE

ScenarioC ==
    [i \in Cells |-> <<"X", "O", "X", "O", "X", "O", "O", "X", "O">>[i + 1]]

\* Scenario C: [X,O,X,O,X,O,O,X,O] evaluates to Draw.
C2_Witness ==
    /\ Rendered
    /\ squares = ScenarioC
    /\ ~HasTriple(squares) /\ Full(squares)
    /\ isDraw

\* C3: on every board without a filled triple and with an empty cell, the
\* winner is null, isDraw is false and the game is not reported as over.
C3_OpenBoardWithoutTripleIsOngoing ==
    (Rendered /\ ~HasTriple(squares) /\ ~Full(squares)) =>
        /\ winnerInfo.winner = null
        /\ isDraw = FALSE
        /\ ~gameOver

\* Scenario A: the empty board evaluates to Ongoing.
C3_Witness ==
    /\ Rendered
    /\ squares = EmptyBoard
    /\ ~gameOver

-----------------------------------------------------------------------------
(* Claims on handleSquareClick and handleReset, under Spec.  last holds the *)
(* handler that ran last and the state it found; the variables hold the     *)
(* state it left.                                                           *)

Clicked == last.op = "click"

StateKept == squares = last.squares /\ xIsNext = last.xIsNext

\* C4: a click on an empty cell of an ongoing game sets exactly that cell to
\* the mark whose turn it was, leaves the other 8 cells as they were and flips
\* the turn indicator.
C4_PlaceSetsCellAndFlipsTurn ==
    (/\ Clicked
     /\ last.squares[last.index] = null
     /\ VerdictOf(last.squares) = "Ongoing") =>
        /\ squares[last.index] = MarkOfTurn(last.xIsNext)
        /\ \A j \in Cells \ {last.index} : squares[j] = last.squares[j]
        /\ xIsNext = ~last.xIsNext

\* O has just been placed on an empty cell of an ongoing game.
C4_Witness ==
    /\ Clicked
    /\ last.squares[last.index] = null
    /\ VerdictOf(last.squares) = "Ongoing"
    /\ ~last.xIsNext
    /\ squares[last.index] = "O"
    /\ xIsNext

\* C5: a click on an occupied cell changes neither the board nor the turn
\* indicator.
C5_OccupiedCellIsNoOp ==
    (Clicked /\ last.squares[last.index] # null) => StateKept

\* Scenario D: fresh game, place(0), place(0): X alone at 0, O still to move.
C5_Witness ==
    /\ Clicked
    /\ last.index = 0
    /\ last.squares = [EmptyBoard EXCEPT ![0] = "X"]
    /\ ~last.xIsNext
    /\ squares = [EmptyBoard EXCEPT ![0] = "X"]
    /\ ~xIsNext

\* C6: a click on any cell while the verdict is Won or Draw changes neither
\* the board nor the turn indicator.
C6_FinishedGameIsNoOp ==
    (Clicked /\ VerdictOf(last.squares) # "Ongoing") => StateKept

\* Scenario E: a click on a still-empty cell of a won game.
C6_Witness ==
    /\ Clicked
    /\ VerdictOf(last.squares) = "Won"
    /\ last.squares[last.index] = null
    /\ StateKept

\* C7: reset, from whatever state, leaves all 9 cells empty and X to move; a
\* reset right after a reset changes nothing.
C7_ResetClearsBoardAndTurn ==
    /\ last.op = "reset" =>
           /\ \A i \in Cells : squares[i] = null
           /\ xIsNext = TRUE
    /\ (last.op = "reset" /\ last.prevOp = "reset") =>
           /\ StateKept
           /\ winnerInfo = last.winnerInfo
           /\ isDraw = last.isDraw

\* A reset of a won game in which O was to move.
C7_Witness ==
    /\ last.op = "reset"
    /\ VerdictOf(last.squares) = "Won"
    /\ ~last.xIsNext
    /\ squares = EmptyBoard
    /\ xIsNext

\* C8: a click on a won or drawn game leaves the verdict as it was, winner and
\* line included; the verdict goes from Won or Draw to Ongoing by reset only.
C8_WonAndDrawAreTerminal ==
    /\ (Clicked /\ VerdictOf(last.squares) # "Ongoing") =>
           /\ VerdictOf(squares) = VerdictOf(last.squares)
           /\ winnerInfo = last.winnerInfo
           /\ isDraw = last.isDraw
    /\ (VerdictOf(last.squares) # "Ongoing" /\ VerdictOf(squares) = "Ongoing") =>
           last.op = "reset"

\* A click on a drawn game, which is still drawn.
C8_Witness ==
    /\ Clicked
    /\ VerdictOf(last.squares) = "Draw"
    /\ last.isDraw
    /\ isDraw

\* C9: a click never empties a non-empty cell nor changes its mark; a cell
\* that held a mark and no longer holds it was cleared by reset.
C9_MarksStayUntilReset ==
    /\ Clicked =>
           \A i \in Cells : last.squares[i] # null => squares[i] = last.squares[i]
    /\ (\E i \in Cells : last.squares[i] # null /\ squares[i] # last.squares[i]) =>
           (last.op = "reset" /\ squares = EmptyBoard)

\* A placement on a board that already held marks of both players.
C9_Witness ==
    /\ Clicked
    /\ squares # last.squares
    /\ \E i, j \in Cells : last.squares[i] = "X" /\ last.squares[j] = "O"

-----------------------------------------------------------------------------
(* Claims on the rendered output, under Spec *)

\* The winning marks of a board: the marks that fill a triple.
WinningMarks(b) == {b[TripleOrder[k][1]] : k \in {n \in TripleIds : Filled(b, TripleOrder[n])}}

\* C10 as stated: the status line is "Next player: {mark}" when Ongoing,
\* "Winner: {mark}" when Won, and "It's a draw", with the ASCII apostrophe,
\* when Draw.
C10_StatusLineAsStated ==
    /\ VerdictOf(squares) = "Ongoing" =>
           statusText = (IF xIsNext THEN "Next player: X" ELSE "Next player: O")
    /\ VerdictOf(squares) = "Won" =>
           \A m \in WinningMarks(squares) :
               statusText = (IF m = "X" THEN "Winner: X" ELSE "Winner: O")
    /\ VerdictOf(squares) = "Draw" => statusText = "It's a draw"

\* C10 as amended: the same, with the draw text written in the source, whose
\* apostrophe is the character U+2019.
C10_StatusLineWithTypographicApostrophe ==
    /\ VerdictOf(squares) = "Ongoing" =>
           statusText = (IF xIsNext THEN "Next player: X" ELSE "Next player: O")
    /\ VerdictOf(squares) = "Won" =>
           \A m \in WinningMarks(squares) :
               statusText = (IF m = "X" THEN "Winner: X" ELSE "Winner: O")
    /\ VerdictOf(squares) = "Draw" => statusText = "It\\u2019s a draw"

\* A drawn game and its status line.
C10_Witness ==
    /\ VerdictOf(squares) = "Draw"
    /\ statusText = "It\\u2019s a draw"

\* C11: each of the 9 cells is disabled exactly when it is occupied or the
\* verdict is Won or Draw.
C11_DisabledIffOccupiedOrOver ==
    \A i \in Cells :
        squareDisabled(i) <=> (squares[i] \in Marks \/ VerdictOf(squares) # "Ongoing")

\* A won game: its empty cells are disabled too.
C11_Witness ==
    /\ VerdictOf(squares) = "Won"
    /\ \E i \in Cells : squares[i] = null /\ squareDisabled(i)

FilledIds(b) == {k \in TripleIds : Filled(b, TripleOrder[k])}

\* C12 as stated: in every reachable state at most one of the 8 triples is
\* filled with three identical non-empty marks.
C12_AtMostOneFilledTriple == Cardinality(FilledIds(squares)) <= 1

\* C12 as amended: in every reachable state all filled triples hold the same
\* mark, there are at most two of them, and two filled triples share a cell.
C12_FilledTriplesOfOneMark ==
    /\ Cardinality(WinningMarks(squares)) <= 1
    /\ Cardinality(FilledIds(squares)) <= 2
    /\ \A j, k \in FilledIds(squares) :
           j # k => Elements(TripleOrder[j]) \cap Elements(TripleOrder[k]) # {}

\* One placement has filled two triples at once.
C12_Witness ==
    /\ Clicked
    /\ FilledIds(last.squares) = {}
    /\ Cardinality(FilledIds(squares)) = 2

-----------------------------------------------------------------------------
(* Claims on the scan order, under EvalSpec *)

FirstFilledId(b) == CHOOSE k \in FilledIds(b) : \A j \in FilledIds(b) : k <= j

\* C13: on every board with several filled triples the result is the mark and
\* the triple of the earliest one in the order rows, columns, diagonals; the
\* line is always empty or one of the 8 triples, indices as listed.
C13_EarliestTripleInFixedOrder ==
    Rendered =>
        /\ winnerInfo.line = <<>> \/ \E k \in TripleIds : winnerInfo.line = TripleOrder[k]
        /\ Cardinality(FilledIds(squares)) > 1 =>
               /\ winnerInfo.line = TripleOrder[FirstFilledId(squares)]
               /\ winnerInfo.winner = squares[TripleOrder[FirstFilledId(squares)][1]]

\* O fills the top row and the left column, X the middle column: the result is
\* O with the top row.
C13_Witness ==
    /\ Rendered
    /\ squares = [i \in Cells |-> <<"O", "O", "O", "O", "X", null, "O", "X", "X">>[i + 1]]
    /\ winnerInfo = [winner |-> "O", line |-> <<0, 1, 2>>]

-----------------------------------------------------------------------------
(* Further claims on the game, under Spec *)

\* The cells of the filled triples of a board.
FilledCells(b) == UNION {Elements(TripleOrder[k]) : k \in FilledIds(b)}

\* C14 as stated: a cell is flagged as winning exactly when the verdict is Won
\* and the cell belongs to a triple filled with three identical marks; with
\* the verdict Ongoing or Draw no cell is flagged.
C14_FlaggedIffInAFilledTriple ==
    /\ \A i \in Cells :
           squareIsWinning(i) <=>
               (VerdictOf(squares) = "Won" /\ i \in FilledCells(squares))
    /\ VerdictOf(squares) # "Won" => \A i \in Cells : ~squareIsWinning(i)

\* C14 as amended: a cell is flagged exactly when the verdict is Won and the
\* cell belongs to the winning line, the first filled triple in the fixed
\* order; with the verdict Ongoing or Draw no cell is flagged.
C14_FlaggedIffInTheWinningLine ==
    /\ \A i \in Cells :
           squareIsWinning(i) <=>
               (/\ VerdictOf(squares) = "Won"
                /\ i \in Elements(TripleOrder[FirstFilledId(squares)]))
    /\ VerdictOf(squares) # "Won" => \A i \in Cells : ~squareIsWinning(i)

\* Two triples are filled: the cells of the first are flagged, a cell that is
\* only in the second is not.
C14_Witness ==
    /\ Cardinality(FilledIds(squares)) = 2
    /\ \A i \in Elements(TripleOrder[FirstFilledId(squares)]) : squareIsWinning(i)
    /\ \E i \in FilledCells(squares) : ~squareIsWinning(i)

Count(b, m) == Cardinality({i \in Cells : b[i] = m})

\* C16: the number of X equals the number of O when X is to move and exceeds
\* it by one when O is to move; a drawn board holds 5 X and 4 O.
C16_TurnFollowsFromTheBoard ==
    /\ xIsNext => Count(squares, "X") = Count(squares, "O")
    /\ ~xIsNext => Count(squares, "X") = Count(squares, "O") + 1
    /\ Count(squares, "X") - Count(squares, "O") \in {0, 1}
    /\ VerdictOf(squares) = "Draw" =>
           Count(squares, "X") = 5 /\ Count(squares, "O") = 4

\* A drawn game: 5 X, 4 O, O would be next.
C16_Witness ==
    /\ VerdictOf(squares) = "Draw"
    /\ Count(squares, "X") = 5
    /\ ~xIsNext

\* C17: in a won game the winner is the mark placed last, the opposite of the
\* mark the turn indicator names, and the other mark fills no triple; the
\* verdict becomes Won only by the placement that completes the triple.
C17_WinnerMadeTheLastPlacement ==
    /\ VerdictOf(squares) = "Won" =>
           /\ winnerInfo.winner = MarkOfTurn(~xIsNext)
           /\ WinningMarks(squares) = {winnerInfo.winner}
    /\ (VerdictOf(last.squares) # "Won" /\ VerdictOf(squares) = "Won") =>
           /\ Clicked
           /\ last.squares[last.index] = null
           /\ squares[last.index] = winnerInfo.winner
           /\ last.index \in Elements(winnerInfo.line)
           /\ last.winnerInfo.winner = null

\* O has just completed a triple.
C17_Witness ==
    /\ Clicked
    /\ VerdictOf(last.squares) = "Ongoing"
    /\ VerdictOf(squares) = "Won"
    /\ winnerInfo.winner = "O"
    /\ xIsNext

\* Whether the click recorded in last changed the board or the turn.
ClickChangedState == squares # last.squares \/ xIsNext # last.xIsNext

\* The disabled flag the square clicked last had when it was clicked.
ClickedSquareWasDisabled ==
    \/ last.squares[last.index] # null
    \/ last.winnerInfo.winner # null
    \/ last.isDraw

\* C19: a click changes the board or the turn exactly when the clicked cell
\* was enabled; in every state the disabled flag of each cell is the guard of
\* the click handler, and a drawn board has no empty cell.
C19_DisabledFlagIsTheGuard ==
    /\ Clicked => (ClickChangedState <=> ~ClickedSquareWasDisabled)
    /\ \A i \in Cells : squareDisabled(i) <=> clickIgnored(i)
    /\ isDraw => \A i \in Cells : squares[i] # null

\* A click on an empty, disabled cell of a won game: nothing changed.
C19_Witness ==
    /\ Clicked
    /\ last.squares[last.index] = null
    /\ ClickedSquareWasDisabled
    /\ squareDisabled(last.index)
    /\ ~ClickChangedState

-----------------------------------------------------------------------------
(* Claim on two events in a row, under HistSpec: older is the first click   *)
(* and the state it found, last the second click and the state it found.    *)

\* Two clicks in a row on two different cells that were both empty in an
\* ongoing game, before the first of them.
TwoClicksOnEmptyCells ==
    /\ Clicked
    /\ older.op = "click"
    /\ older.index # last.index
    /\ VerdictOf(older.squares) = "Ongoing"
    /\ older.squares[older.index] = null
    /\ older.squares[last.index] = null

\* Both placements are on the board, marks alternating, the turn flipped
\* twice, nothing else touched.
BothPlacementsKept ==
    /\ squares[older.index] = MarkOfTurn(older.xIsNext)
    /\ squares[last.index] = MarkOfTurn(~older.xIsNext)
    /\ \A i \in Cells \ {older.index, last.index} : squares[i] = older.squares[i]
    /\ xIsNext = older.xIsNext

\* The second handler found what the first one left.
SecondClickSawTheFirst ==
    /\ last.squares = [older.squares EXCEPT ![older.index] = MarkOfTurn(older.xIsNext)]
    /\ last.xIsNext = ~older.xIsNext
    /\ Truthy(last.winnerInfo.winner) <=> HasTriple(last.squares)

\* C15 as stated: of two clicks handled one after the other on two different
\* empty cells of an ongoing game, the second reads the state the first left,
\* and both cells end up marked, with alternating marks and the turn flipped
\* twice.
C15_TwoClicksBothPlaced ==
    TwoClicksOnEmptyCells => (SecondClickSawTheFirst /\ BothPlacementsKept)

\* C15 as amended: the second click always reads the state the first left;
\* both cells end up marked, with alternating marks and the turn flipped
\* twice, unless the first placement completed a triple, in which case the
\* second click is ignored and only the first cell is marked.
C15_TwoClicksBothPlacedUnlessWon ==
    TwoClicksOnEmptyCells =>
        /\ SecondClickSawTheFirst
        /\ ~HasTriple(last.squares) => BothPlacementsKept
        /\ HasTriple(last.squares) => StateKept

\* X, then O, placed by two clicks in a row.
C15_Witness ==
    /\ TwoClicksOnEmptyCells
    /\ older.xIsNext
    /\ squares[older.index] = "X"
    /\ squares[last.index] = "O"
    /\ xIsNext

-----------------------------------------------------------------------------
(* Claim on the end of the game, under LiveSpec *)

NumPlaced(b) == Cardinality({i \in Cells : b[i] # null})

\* What holds of every state of a game: a click that changes the state adds
\* one mark to the at most 9 on the board, a won board holds at least 5
\* marks, and an ongoing game has a cell on which a click is accepted.
GameProgress ==
    /\ NumPlaced(squares) <= NumSquares
    /\ (Clicked /\ ClickChangedState) =>
           NumPlaced(squares) = NumPlaced(last.squares) + 1
    /\ VerdictOf(squares) = "Won" => NumPlaced(squares) >= 5
    /\ VerdictOf(squares) = "Ongoing" => \E i \in Cells : ~clickIgnored(i)

\* C18: every game ends.  At most 9 placements change the state, no win comes
\* before the 5th, an ongoing game always has a cell on which place succeeds,
\* and when accepted clicks keep being made and Reset is not used, the
\* verdict eventually is Won or Draw.
C18_EveryGameEnds ==
    /\ []GameProgress
    /\ <>(VerdictOf(squares) \in {"Won", "Draw"} /\ gameOver)

\* The 9th placement has ended the game in a draw.
C18_Witness ==
    /\ Clicked
    /\ ClickChangedState
    /\ NumPlaced(squares) = NumSquares
    /\ VerdictOf(squares) = "Draw"

=============================================================================
